---- MODULE Spec2Model ----
(***************************************************************************)
(* A model of ztar-rod's script decompilation core, src/script/mod.rs:     *)
(*   - Scope, the layered (pointer -> name, name -> datatype) symbol table *)
(*   - fix_call_arg_capture, the calling-convention normalizer             *)
(*   - infer_datatypes, the backward fixed-point type inference            *)
(*   - decompile_map, which drives the three                               *)
(*                                                                         *)
(* Names (Rust Strings) are sequences of one-character strings, so that    *)
(* format!("{}_{:X}", ..) is modelled by what it prints.                   *)
(***************************************************************************)
EXTENDS Integers, Sequences, FiniteSets, TLC

VARIABLES
    scope,            \* Scope.layers: a sequence of layers, front (index 1) first
    snaps,            \* history: the layers as they were at each push not yet popped
    last,             \* history: the last Scope call, its arguments and its result
    pc,               \* where the running function stands
    mode,             \* who called infer_datatypes: decompile_map or a direct caller
    gi,               \* decompile_map: the index of the next entry of METHODS
    body,             \* the declaration's block (a direct caller: the block passed)
    blocks,           \* decompile_map: the paths decl.inner_blocks_mut() yielded
    bi,               \* decompile_map: the index of the block the for loop holds
    made_inferences,  \* infer_datatypes: the local of that name
    inferred,         \* infer_datatypes: the candidates not yet taken by the commit loop
    result,           \* what the function returned: NoStatus while it runs
    out,              \* decompile_map: the text rendered, <<>> while there is none
    intLitTy,         \* what Expression::infer_datatype answers for an integer literal
    hist              \* history: counters and snapshots the claims are stated with

scopeVars == <<scope, snaps, last>>
runVars == <<pc, mode, gi, body, blocks, bi, made_inferences, inferred, result, out,
             intLitTy, hist>>
vars == <<scope, snaps, last, pc, mode, gi, body, blocks, bi, made_inferences,
          inferred, result, out, intLitTy, hist>>

(***************************************************************************)
(* Bounds of the model.                                                    *)
(***************************************************************************)
\* The most layers the Scope state machine pushes.
MaxLayers == 2
\* usize is modelled UsizeBits wide; the code's usize is the target's word.
UsizeBits == 3

\* The most statements, nested ones included, of a block the model draws.
MaxStmts == 3
\* The most calls of infer_datatypes a direct caller makes on one block.
MaxRuns == 2

Pow2(n) == 2 ^ n
UsizeMax == Pow2(UsizeBits) - 1

(***************************************************************************)
(* DataType (datatype.rs, used by mod.rs): Any, Int, Bool, Fun(args),      *)
(* Asm(args).  NoneT stands for Option::None of an Option<DataType>.       *)
(***************************************************************************)
AnyT == [k |-> "Any", args |-> <<>>]
IntT == [k |-> "Int", args |-> <<>>]
BoolT == [k |-> "Bool", args |-> <<>>]
Fun(a) == [k |-> "Fun", args |-> a]
Asm(a) == [k |-> "Asm", args |-> a]
NoneT == [k |-> "None", args |-> <<>>]
\* The outcome of a call that panicked instead of returning.
PanicT == [k |-> "Panic", args |-> <<>>]

\* Option<&str>
NoName == [some |-> FALSE, v |-> <<>>]
SomeName(n) == [some |-> TRUE, v |-> n]

(***************************************************************************)
(* Scope                                                                   *)
(***************************************************************************)
\* One layer: (HashMap<u32, String>, HashMap<String, DataType>)
EmptyLayer == [ptrs |-> <<>>, names |-> <<>>]

\* HashMap::insert: the map with key k bound to v
MapInsert(m, k, v) == (k :> v) @@ m

\* HashMap::insert's return value: the value k was bound to, if any
MapPrev(m, k) == IF k \in DOMAIN m THEN m[k] ELSE NoneT

\* Scope::push: push_front of an empty layer
Push(layers) == <<EmptyLayer>> \o layers

\* Scope::pop: pop_front
Pop(layers) == IF layers = <<>> THEN layers ELSE Tail(layers)

\* Scope::insert_ptr, the layers it leaves: both maps of layers[0] are written
InsertPtr(layers, ptr, name, datatype) ==
    [layers EXCEPT ![1] = [ptrs |-> MapInsert(@.ptrs, ptr, name),
                           names |-> MapInsert(@.names, name, datatype)]]

\* Scope::insert_ptr, its return value: that of the name map's insert
InsertPtrRet(layers, ptr, name) == MapPrev(layers[1].names, name)

\* insert_name writing into the outermost layer instead of layers[0]
InsertNameOutermost(layers, name, datatype) ==
    [layers EXCEPT ![Len(layers)].names = MapInsert(@, name, datatype)]

\* Scope::insert_name, the layers it leaves
InsertName(layers, name, datatype) ==
    [layers EXCEPT ![1].names = MapInsert(@, name, datatype)]

\* Scope::insert_name, its return value
InsertNameRet(layers, name) == MapPrev(layers[1].names, name)

\* The for loop of lookup_ptr from layer i on: the first layer that has ptr
RECURSIVE LookupPtrFrom(_, _, _)
LookupPtrFrom(layers, ptr, i) ==
    IF i > Len(layers) THEN NoName
    ELSE IF ptr \in DOMAIN layers[i].ptrs THEN SomeName(layers[i].ptrs[ptr])
    ELSE LookupPtrFrom(layers, ptr, i + 1)

\* Scope::lookup_ptr
LookupPtr(layers, ptr) == LookupPtrFrom(layers, ptr, 1)

\* The for loop of lookup_name from layer i on
RECURSIVE LookupNameFrom(_, _, _)
LookupNameFrom(layers, name, i) ==
    IF i > Len(layers) THEN NoneT
    ELSE IF name \in DOMAIN layers[i].names THEN layers[i].names[name]
    ELSE LookupNameFrom(layers, name, i + 1)

\* Scope::lookup_name
LookupName(layers, name) == LookupNameFrom(layers, name, 1)

\* Iterator::take(n): the first n layers
Take(layers, n) == SubSeq(layers, 1, IF n < Len(layers) THEN n ELSE Len(layers))

\* The builds of the crate: overflow checks are on in debug, off in release.
Builds == {"debug", "release"}

\* max_depth + 1 in usize: wraps when overflow checks are off
UsizeSucc(n) == (n + 1) % Pow2(UsizeBits)

\* Scope::lookup_name_depth: a panic where max_depth + 1 overflows a checked
\* build, and else the scan of the first (max_depth + 1) layers
LookupNameDepth(layers, name, max_depth, build) ==
    IF max_depth + 1 > UsizeMax /\ build = "debug" THEN PanicT
    ELSE LookupName(Take(layers, UsizeSucc(max_depth)), name)

\* lookup_name_depth where the addition cannot overflow (the callers of mod.rs
\* pass 0)
LookupNameDepth0(layers, name) == LookupNameDepth(layers, name, 0, "release")

\* The record of a Scope call (history)
NoCall ==
    [op |-> "new", ptr |-> 0, name |-> <<>>, ty |-> NoneT, depth |-> 0,
     build |-> "release", res |-> NoneT, resName |-> NoName,
     before |-> <<>>, popped |-> <<>>, snap |-> <<>>]

(***************************************************************************)
(* The AST of parse::ast, as mod.rs uses it.                               *)
(***************************************************************************)
\* Expression, and NoExpr for the None of an Option<RefCell<Expression>>
NoExpr == [e |-> "None", i |-> 0, b |-> FALSE, n |-> <<>>]
LiteralInt(v) == [e |-> "LiteralInt", i |-> v, b |-> FALSE, n |-> <<>>]
LiteralBool(v) == [e |-> "LiteralBool", i |-> 0, b |-> v, n |-> <<>>]
Identifier(name) == [e |-> "Identifier", i |-> 0, b |-> FALSE, n |-> name]

\* IdentifierOrPointer
NoMethod == [p |-> "None", n |-> <<>>, ptr |-> 0]
MethodIdentifier(name) == [p |-> "Identifier", n |-> name, ptr |-> 0]
MethodPointer(ptr) == [p |-> "Pointer", n |-> <<>>, ptr |-> ptr]

\* Statement: VarDeclare { datatype, identifier, expression },
\* VarAssign { identifier, expression }, MethodCall { method, arguments, .. },
\* and the kinds mod.rs matches with _, which own the nested blocks.
VarDeclare(datatype, name, expression) ==
    [s |-> "VarDeclare", datatype |-> datatype, identifier |-> name,
     expression |-> expression, method |-> NoMethod, arguments |-> <<>>, inner |-> <<>>]
VarAssign(name, expression) ==
    [s |-> "VarAssign", datatype |-> NoneT, identifier |-> name,
     expression |-> expression, method |-> NoMethod, arguments |-> <<>>, inner |-> <<>>]
MethodCall(method, arguments) ==
    [s |-> "MethodCall", datatype |-> NoneT, identifier |-> <<>>,
     expression |-> NoExpr, method |-> method, arguments |-> arguments, inner |-> <<>>]
OtherStmt(inner) ==
    [s |-> "Other", datatype |-> NoneT, identifier |-> <<>>,
     expression |-> NoExpr, method |-> NoMethod, arguments |-> <<>>, inner |-> inner]

\* Statement::inner_blocks_mut: the blocks a statement owns
InnerBlocks(stmt) == stmt.inner

\* IdentifierOrPointer::lookup: the callee's name and datatype, a pointer being
\* resolved to its name first; NoneT when either lookup fails
MethodLookup(method, layers) ==
    IF method.p = "Identifier" THEN LookupName(layers, method.n)
    ELSE IF method.p = "Pointer" /\ LookupPtr(layers, method.ptr).some
         THEN LookupName(layers, LookupPtr(layers, method.ptr).v)
         ELSE NoneT

\* Expression::infer_datatype
ExprInferDatatype(expr, layers) ==
    CASE expr.e = "LiteralInt" -> intLitTy
      [] expr.e = "LiteralBool" -> BoolT
      [] expr.e = "Identifier" ->
            IF LookupName(layers, expr.n) = NoneT THEN AnyT
            ELSE LookupName(layers, expr.n)
      [] OTHER -> AnyT

\* The block at a path of a block: a path is a sequence of
\* <<statement index, index among that statement's inner blocks>>
RECURSIVE GetBlock(_, _)
GetBlock(block, path) ==
    IF path = <<>> THEN block
    ELSE GetBlock(InnerBlocks(block[path[1][1]])[path[1][2]], Tail(path))

\* The block with the block at a path replaced (a write through the &mut)
RECURSIVE SetBlock(_, _, _)
SetBlock(block, path, new) ==
    IF path = <<>> THEN new
    ELSE [block EXCEPT ![path[1][1]].inner[path[1][2]] = SetBlock(@, Tail(path), new)]

\* Concatenation of a sequence of sequences
RECURSIVE Flatten(_)
Flatten(ss) == IF ss = <<>> THEN <<>> ELSE Head(ss) \o Flatten(Tail(ss))

\* The paths of the nested blocks of a block, outer before inner, in order
RECURSIVE NestedPaths(_, _)
NestedPaths(block, prefix) ==
    Flatten([i \in 1..Len(block) |->
        Flatten([j \in 1..Len(InnerBlocks(block[i])) |->
            <<prefix \o << <<i, j>> >> >>
            \o NestedPaths(InnerBlocks(block[i])[j], prefix \o << <<i, j>> >>)])])

\* Declaration::inner_blocks_mut for Declaration::Fun: the body and each
\* nested body it contains
DeclInnerBlocks(block) == << <<>> >> \o NestedPaths(block, <<>>)

(***************************************************************************)
(* fix_call_arg_capture                                                    *)
(***************************************************************************)
\* globals::FUNWORD_STR
FUNWORD_STR == <<"F", "u", "n", "W", "o", "r", "d">>

HexDigits == <<"0", "1", "2", "3", "4", "5", "6", "7", "8", "9", "A", "B", "C", "D", "E", "F">>

LowerHexDigits == <<"0", "1", "2", "3", "4", "5", "6", "7", "8", "9", "a", "b", "c", "d", "e", "f">>

\* {:x}: lower-case hexadecimal, no padding
RECURSIVE FormatLowerHex(_)
FormatLowerHex(n) ==
    IF n < 16 THEN <<LowerHexDigits[n + 1]>>
    ELSE FormatLowerHex(n \div 16) \o <<LowerHexDigits[(n % 16) + 1]>>

\* {:X}: upper-case hexadecimal, no padding
RECURSIVE FormatUpperHex(_)
FormatUpperHex(n) ==
    IF n < 16 THEN <<HexDigits[n + 1]>>
    ELSE FormatUpperHex(n \div 16) \o <<HexDigits[(n % 16) + 1]>>

\* format!("{}_{:X}", globals::FUNWORD_STR, n)
CaptureName(n) == FUNWORD_STR \o <<"_">> \o FormatUpperHex(n)

\* The arguments pushed for a callee of these argument types, n = 0, 1, ..
CaptureArguments(argument_types) ==
    [n \in 1..Len(argument_types) |-> Identifier(CaptureName(n - 1))]

\* The if-let with a pattern that takes the argument types of Asm as well
FixCallAnyMethod(stmt, layers) ==
    IF stmt.s = "MethodCall" /\ MethodLookup(stmt.method, layers).k \in {"Fun", "Asm"}
    THEN IF Len(stmt.arguments) # 0
         THEN [stmt |-> stmt, panic |-> TRUE]
         ELSE [stmt |-> [stmt EXCEPT !.arguments =
                            @ \o CaptureArguments(MethodLookup(stmt.method, layers).args)],
               panic |-> FALSE]
    ELSE [stmt |-> stmt, panic |-> FALSE]

\* The if-let of fix_call_arg_capture on one statement: [stmt, panic], panic
\* being the failure of assert_eq!(arguments.len(), 0)
FixCall(stmt, layers) ==
    IF stmt.s = "MethodCall" /\ MethodLookup(stmt.method, layers).k = "Fun"
    THEN IF Len(stmt.arguments) # 0
         THEN [stmt |-> stmt, panic |-> TRUE]
         ELSE [stmt |-> [stmt EXCEPT !.arguments =
                            @ \o CaptureArguments(MethodLookup(stmt.method, layers).args)],
               panic |-> FALSE]
    ELSE [stmt |-> stmt, panic |-> FALSE]

\* fix_call_arg_capture from statement i of the block on: [block, panic].
\* The scope is borrowed immutably and so is not part of the result.
RECURSIVE FixFrom(_, _, _)
RECURSIVE FixInner(_, _, _)
FixFrom(block, layers, i) ==
    IF i > Len(block) THEN [block |-> block, panic |-> FALSE]
    ELSE LET c == FixCall(block[i], layers)
         IN  IF c.panic THEN [block |-> block, panic |-> TRUE]
             ELSE LET n == FixInner(c.stmt, layers, 1)
                      b == [block EXCEPT ![i] = n.stmt]
                  IN  IF n.panic THEN [block |-> b, panic |-> TRUE]
                      ELSE FixFrom(b, layers, i + 1)

\* "Fix inner blocks, too": the inner blocks of stmt from the j-th on
FixInner(stmt, layers, j) ==
    IF j > Len(InnerBlocks(stmt)) THEN [stmt |-> stmt, panic |-> FALSE]
    ELSE LET r == FixFrom(InnerBlocks(stmt)[j], layers, 1)
             t == [stmt EXCEPT !.inner[j] = r.block]
         IN  IF r.panic THEN [stmt |-> t, panic |-> TRUE]
             ELSE FixInner(t, layers, j + 1)

FixCallArgCapture(block, layers) == FixFrom(block, layers, 1)

(***************************************************************************)
(* infer_datatypes                                                         *)
(***************************************************************************)
\* What a function returned: Ok, an Error, or a panic; NoStatus while it runs.
NoStatus ==
    [k |-> "None", identifier |-> <<>>, declared_datatype |-> NoneT,
     inferred_datatype |-> NoneT, cause |-> ""]
Ok == [NoStatus EXCEPT !.k = "Ok"]
Panicked == [NoStatus EXCEPT !.k = "Panic"]

\* Error::VarDeclareTypeMismatch { identifier, declared_datatype, inferred_datatype }
VarDeclareTypeMismatch(name, declared, found) ==
    [NoStatus EXCEPT !.k = "VarDeclareTypeMismatch", !.identifier = name,
                     !.declared_datatype = declared, !.inferred_datatype = found]

\* Error::BytecodeDecompile(bc::Error), as From<bc::Error> wraps it
BytecodeDecompile(error) == [NoStatus EXCEPT !.k = "BytecodeDecompile", !.cause = error]

\* An element of `inferred`
Candidate(name, datatype) == [name |-> name, datatype |-> datatype]

\* "Update int literal to a bool literal": LiteralBool(v == 1) for a LiteralInt(v)
IntToBoolLiteral(expression) ==
    IF expression.e = "LiteralInt" THEN LiteralBool(expression.i = 1) ELSE expression

\* The VarDeclare arm: [stmt, cands, status].  datatype.replace(Any) leaves Any
\* in the cell and hands back what was declared; the arm for a declared type
\* that is not Any returns the error.
RuleVarDeclare(stmt, layers) ==
    LET found == LookupNameDepth0(layers, stmt.identifier)
    IN  IF found # NoneT
        THEN IF stmt.datatype = AnyT
             THEN [stmt |-> [stmt EXCEPT !.datatype = found,
                                         !.expression = IF found = BoolT
                                                        THEN IntToBoolLiteral(@) ELSE @],
                   cands |-> <<>>, status |-> Ok]
             ELSE [stmt |-> [stmt EXCEPT !.datatype = AnyT],
                   cands |-> <<>>,
                   status |-> VarDeclareTypeMismatch(stmt.identifier, stmt.datatype, found)]
        ELSE [stmt |-> stmt,
              cands |-> <<Candidate(stmt.identifier,
                                    IF stmt.expression = NoExpr THEN AnyT
                                    ELSE ExprInferDatatype(stmt.expression, layers))>>,
              status |-> Ok]

\* The VarAssign arm with the literal rewritten for every known type
RuleVarAssignAnyKnown(stmt, layers) ==
    LET found == LookupName(layers, stmt.identifier)
    IN  IF found = AnyT
        THEN [stmt |-> stmt,
              cands |-> <<Candidate(stmt.identifier,
                                    ExprInferDatatype(stmt.expression, layers))>>,
              status |-> Ok]
        ELSE IF found # NoneT
        THEN [stmt |-> [stmt EXCEPT !.expression = IntToBoolLiteral(@)],
              cands |-> <<>>, status |-> Ok]
        ELSE [stmt |-> stmt, cands |-> <<>>, status |-> Ok]

\* The VarAssign arm
RuleVarAssign(stmt, layers) ==
    LET found == LookupName(layers, stmt.identifier)
    IN  IF found = AnyT
        THEN [stmt |-> stmt,
              cands |-> <<Candidate(stmt.identifier,
                                    ExprInferDatatype(stmt.expression, layers))>>,
              status |-> Ok]
        ELSE IF found = BoolT
        THEN [stmt |-> [stmt EXCEPT !.expression = IntToBoolLiteral(@)],
              cands |-> <<>>, status |-> Ok]
        ELSE [stmt |-> stmt, cands |-> <<>>, status |-> Ok]

\* The MethodCall arm: arg_types.iter().zip(arguments.iter()) pairs the
\* positions both have
RuleMethodCall(stmt, layers) ==
    LET callee == MethodLookup(stmt.method, layers)
        arg_types == callee.args
        paired(i) == i <= Len(arg_types)
    IN  IF callee.k \in {"Asm", "Fun"}
        THEN [stmt |-> [stmt EXCEPT !.arguments =
                          [i \in 1..Len(@) |->
                              IF paired(i) /\ arg_types[i] = BoolT
                              THEN IntToBoolLiteral(@[i]) ELSE @[i]]],
              cands |-> Flatten([i \in 1..Len(stmt.arguments) |->
                          IF /\ paired(i)
                             /\ stmt.arguments[i].e = "Identifier"
                             /\ LookupName(layers, stmt.arguments[i].n) = AnyT
                          THEN <<Candidate(stmt.arguments[i].n, arg_types[i])>>
                          ELSE <<>>]),
              status |-> Ok]
        ELSE [stmt |-> stmt, cands |-> <<>>, status |-> Ok]

\* The match of the for loop's body on one statement
Rule(stmt, layers) ==
    CASE stmt.s = "VarDeclare" -> RuleVarDeclare(stmt, layers)
      [] stmt.s = "VarAssign" -> RuleVarAssign(stmt, layers)
      [] stmt.s = "MethodCall" -> RuleMethodCall(stmt, layers)
      [] OTHER -> [stmt |-> stmt, cands |-> <<>>, status |-> Ok]

\* The turn with the candidate written into the outermost layer
CommitOneOutermost(layers, cand) ==
    IF cand.datatype = AnyT THEN [scope |-> layers, outcome |-> "break"]
    ELSE IF layers = <<>> THEN [scope |-> layers, outcome |-> "panic"]
    ELSE IF MapPrev(layers[Len(layers)].names, cand.name) \in {NoneT, AnyT}
    THEN [scope |-> InsertNameOutermost(layers, cand.name, cand.datatype), outcome |-> "made"]
    ELSE [scope |-> InsertNameOutermost(layers, cand.name, cand.datatype), outcome |-> "panic"]

\* One turn of "Define the inferred types in-scope": break on Any, else
\* insert_name and the panic on a known type, else made_inferences = true
CommitOne(layers, cand) ==
    IF cand.datatype = AnyT THEN [scope |-> layers, outcome |-> "break"]
    ELSE IF layers = <<>> THEN [scope |-> layers, outcome |-> "panic"]
    ELSE IF InsertNameRet(layers, cand.name) \in {NoneT, AnyT}
    THEN [scope |-> InsertName(layers, cand.name, cand.datatype), outcome |-> "made"]
    ELSE [scope |-> InsertName(layers, cand.name, cand.datatype), outcome |-> "panic"]

\* The commit loop over the candidates left: [scope, made, panic]
RECURSIVE CommitFrom(_, _, _)
CommitFrom(layers, cands, made) ==
    IF cands = <<>> THEN [scope |-> layers, made |-> made, panic |-> FALSE]
    ELSE LET c == CommitOne(layers, Head(cands))
         IN  CASE c.outcome = "break" -> [scope |-> layers, made |-> made, panic |-> FALSE]
               [] c.outcome = "panic" -> [scope |-> c.scope, made |-> made, panic |-> TRUE]
               [] OTHER -> CommitFrom(c.scope, Tail(cands), TRUE)

RECURSIVE ScanFrom(_, _, _, _)
RECURSIVE InferInner(_, _, _)
RECURSIVE InferWhile(_, _, _)

\* The for loop over block.iter_mut().rev() from statement i down:
\* [block, scope, inferred, status].  An error or a panic ends it at once.
ScanFrom(block, layers, i, cands) ==
    IF i = 0 THEN [block |-> block, scope |-> layers, inferred |-> cands, status |-> Ok]
    ELSE LET r == Rule(block[i], layers)
         IN  IF r.status # Ok
             THEN [block |-> [block EXCEPT ![i] = r.stmt], scope |-> layers,
                   inferred |-> cands, status |-> r.status]
             ELSE LET n == InferInner(r.stmt, layers, 1)
                      b == [block EXCEPT ![i] = n.stmt]
                  IN  IF n.status # Ok
                      THEN [block |-> b, scope |-> n.scope, inferred |-> cands,
                            status |-> n.status]
                      ELSE ScanFrom(b, n.scope, i - 1, cands \o r.cands)

\* infer_datatypes(&mut inner_block, &mut scope)? for the inner blocks of stmt
\* from the j-th on
InferInner(stmt, layers, j) ==
    IF j > Len(InnerBlocks(stmt)) THEN [stmt |-> stmt, scope |-> layers, status |-> Ok]
    ELSE LET r == InferWhile(InnerBlocks(stmt)[j], layers, TRUE)
             t == [stmt EXCEPT !.inner[j] = r.block]
         IN  IF r.status # Ok THEN [stmt |-> t, scope |-> r.scope, status |-> r.status]
             ELSE InferInner(t, r.scope, j + 1)

\* while made_inferences { .. }: [block, scope, status]
InferWhile(block, layers, made) ==
    IF ~made THEN [block |-> block, scope |-> layers, status |-> Ok]
    ELSE LET s == ScanFrom(block, layers, Len(block), <<>>)
         IN  IF s.status # Ok
             THEN [block |-> s.block, scope |-> s.scope, status |-> s.status]
             ELSE LET c == CommitFrom(s.scope, s.inferred, FALSE)
                  IN  IF c.panic
                      THEN [block |-> s.block, scope |-> c.scope, status |-> Panicked]
                      ELSE InferWhile(s.block, c.scope, c.made)

\* infer_datatypes, run to its return
InferDatatypes(block, layers) == InferWhile(block, layers, TRUE)

(***************************************************************************)
(* The steps of infer_datatypes on the block the caller passed: the block  *)
(* at path blocks[bi] of body.  Nested blocks are inferred inside the scan *)
(* (InferInner), as the recursive call is.                                 *)
(***************************************************************************)
\* The block infer_datatypes was called on
CurPath == blocks[bi]
CurBlock == GetBlock(body, CurPath)

NoHist ==
    [passes |-> 0, runs |-> 0, body0 |-> <<>>, scope0 |-> <<>>,
     passScope |-> <<>>, log |-> <<>>, loc |-> 0, decodeErr |-> "",
     normIn |-> <<>>, normScope |-> <<>>, batch |-> <<>>, scanScope |-> <<>>,
     decoded |-> <<>>, committed |-> {}]

Event(ev) == [ev |-> ev, b |-> bi]

\* Entry: let mut made_inferences = true
InferEnter ==
    /\ pc = "enter"
    /\ made_inferences' = TRUE
    /\ inferred' = <<>>
    /\ pc' = "while"
    /\ hist' = [hist EXCEPT !.passes = 0, !.runs = @ + 1, !.body0 = CurBlock,
                            !.scope0 = scope, !.passScope = scope,
                            !.committed = {},
                            !.log = Append(@, Event("infer"))]
    /\ UNCHANGED <<scope, snaps, last, mode, gi, body, blocks, bi, result, out, intLitTy>>

\* The while test without made_inferences = false
InferWhileTrueNoReset ==
    /\ pc = "while"
    /\ made_inferences
    /\ inferred' = <<>>
    /\ pc' = "scan"
    /\ hist' = [hist EXCEPT !.passScope = scope]
    /\ UNCHANGED <<scope, snaps, last, mode, gi, body, blocks, bi, result, out, intLitTy,
                   made_inferences>>

\* The while test that goes on: made_inferences = false, inferred = Vec::new()
InferWhileTrue ==
    /\ pc = "while"
    /\ made_inferences
    /\ made_inferences' = FALSE
    /\ inferred' = <<>>
    /\ pc' = "scan"
    /\ hist' = [hist EXCEPT !.passScope = scope]
    /\ UNCHANGED <<scope, snaps, last, mode, gi, body, blocks, bi, result, out, intLitTy>>

\* The while test that ends the loop: Ok(()).  decompile_map goes on to its
\* next block; a direct caller has its result.
InferReturnOk ==
    /\ pc = "while"
    /\ ~made_inferences
    /\ IF mode = "decompile"
       THEN /\ pc' = "loop"
            /\ bi' = bi + 1
            /\ UNCHANGED result
       ELSE /\ pc' = "returned"
            /\ result' = Ok
            /\ UNCHANGED bi
    /\ UNCHANGED <<scope, snaps, last, mode, gi, body, blocks, made_inferences,
                   inferred, out, intLitTy, hist>>

\* The for loop over the statements in reverse, nested blocks included.  An
\* Err is returned (by decompile_map too, through ?); a panic ends the run.
InferScan ==
    /\ pc = "scan"
    /\ LET s == ScanFrom(CurBlock, scope, Len(CurBlock), <<>>)
       IN  /\ body' = SetBlock(body, CurPath, s.block)
           /\ scope' = s.scope
           /\ IF s.status = Ok
              THEN /\ inferred' = s.inferred
                   /\ pc' = "commit"
                   /\ UNCHANGED result
              ELSE /\ inferred' = <<>>
                   /\ pc' = "done"
                   /\ result' = s.status
    /\ hist' = [hist EXCEPT !.passes = @ + 1,
                            !.batch = ScanFrom(CurBlock, scope, Len(CurBlock), <<>>).inferred,
                            !.scanScope = ScanFrom(CurBlock, scope, Len(CurBlock), <<>>).scope]
    /\ UNCHANGED <<snaps, last, mode, gi, blocks, bi, made_inferences, out, intLitTy>>

\* The turn of the commit loop with continue in the place of break
InferCommitContinue ==
    /\ pc = "commit"
    /\ IF inferred = <<>>
       THEN /\ pc' = "while"
            /\ UNCHANGED <<scope, inferred, made_inferences, result>>
       ELSE LET c == CommitOne(scope, Head(inferred))
            IN  /\ scope' = c.scope
                /\ CASE c.outcome = "break" ->
                            /\ inferred' = Tail(inferred)
                            /\ UNCHANGED <<pc, made_inferences, result>>
                     [] c.outcome = "panic" ->
                            /\ inferred' = <<>>
                            /\ pc' = "done"
                            /\ result' = Panicked
                            /\ UNCHANGED made_inferences
                     [] OTHER ->
                            /\ inferred' = Tail(inferred)
                            /\ made_inferences' = TRUE
                            /\ UNCHANGED <<pc, result>>
    /\ hist' = [hist EXCEPT !.committed =
                    IF inferred # <<>> /\ CommitOne(scope, Head(inferred)).outcome = "made"
                    THEN @ \cup {Head(inferred).name} ELSE @]
    /\ UNCHANGED <<snaps, last, mode, gi, body, blocks, bi, out, intLitTy>>

\* One turn of the commit loop, or its end when no candidate is left
InferCommit ==
    /\ pc = "commit"
    /\ IF inferred = <<>>
       THEN /\ pc' = "while"
            /\ UNCHANGED <<scope, inferred, made_inferences, result>>
       ELSE LET c == CommitOne(scope, Head(inferred))
            IN  /\ scope' = c.scope
                /\ CASE c.outcome = "break" ->
                            /\ inferred' = <<>>
                            /\ pc' = "while"
                            /\ UNCHANGED <<made_inferences, result>>
                     [] c.outcome = "panic" ->
                            /\ inferred' = <<>>
                            /\ pc' = "done"
                            /\ result' = Panicked
                            /\ UNCHANGED made_inferences
                     [] OTHER ->
                            /\ inferred' = Tail(inferred)
                            /\ made_inferences' = TRUE
                            /\ UNCHANGED <<pc, result>>
    /\ hist' = [hist EXCEPT !.committed =
                    IF inferred # <<>> /\ CommitOne(scope, Head(inferred)).outcome = "made"
                    THEN @ \cup {Head(inferred).name} ELSE @]
    /\ UNCHANGED <<snaps, last, mode, gi, body, blocks, bi, out, intLitTy>>

InferNext ==
    \/ InferEnter
    \/ InferWhileTrue
    \/ InferReturnOk
    \/ InferScan
    \/ InferCommit

(***************************************************************************)
(* The blocks and scopes the model draws its inputs from.                  *)
(***************************************************************************)
X == <<"x">>
Y == <<"y">>
NameF == <<"f">>
NameK == <<"k">>
NameG == <<"g">>
NameW == <<"w">>

\* The blocks of exactly n statements over a pool of statements that own no
\* block; a statement that owns one adds its block's statements to its own.
RECURSIVE BlocksExact(_, _)
RECURSIVE StmtsExact(_, _)
BlocksExact(pool, n) ==
    IF n = 0 THEN {<<>>}
    ELSE UNION {{<<st>> \o rest : st \in StmtsExact(pool, k),
                                  rest \in BlocksExact(pool, n - k)} : k \in 1..n}

StmtsExact(pool, k) ==
    IF k = 1 THEN pool
    ELSE {OtherStmt(<<b>>) : b \in BlocksExact(pool, k - 1)}

BlocksUpTo(pool, n) == UNION {BlocksExact(pool, k) : k \in 0..n}

\* The statements the blocks passed to infer_datatypes are made of
InferPool ==
    {VarDeclare(AnyT, X, LiteralInt(1)),
     VarDeclare(AnyT, X, LiteralInt(0)),
     VarDeclare(IntT, X, LiteralInt(1)),
     VarDeclare(AnyT, Y, Identifier(X)),
     VarDeclare(AnyT, Y, NoExpr),
     VarAssign(X, LiteralInt(2)),
     VarAssign(Y, Identifier(X)),
     VarAssign(Y, LiteralBool(TRUE)),
     MethodCall(MethodPointer(1), <<Identifier(X)>>),
     MethodCall(MethodIdentifier(NameK), <<LiteralInt(1), LiteralInt(1)>>),
     MethodCall(MethodIdentifier(NameK), <<Identifier(Y), Identifier(X)>>)}

\* A layer that binds the methods f (pointer 1) and k (pointer 2)
MethodLayer ==
    [ptrs |-> (1 :> NameF) @@ (2 :> NameK),
     names |-> (NameF :> Asm(<<BoolT>>)) @@ (NameK :> Asm(<<IntT, BoolT>>))]

WithNames(layer, names) == [layer EXCEPT !.names = names @@ @]

\* The scopes passed to infer_datatypes: x and y unbound, bound to Any or to a
\* type, in the topmost layer or in an outer one
InferScopes ==
    {<<MethodLayer>>,
     <<WithNames(MethodLayer, (X :> AnyT))>>,
     <<WithNames(MethodLayer, (X :> AnyT) @@ (Y :> AnyT))>>,
     <<WithNames(MethodLayer, (X :> BoolT))>>,
     <<EmptyLayer, WithNames(MethodLayer, (X :> AnyT) @@ (Y :> IntT))>>,
     <<WithNames(EmptyLayer, (X :> AnyT)), WithNames(MethodLayer, (X :> IntT))>>}

\* The answers Expression::infer_datatype may give for an integer literal
IntLiteralTypes == {AnyT, IntT}

(***************************************************************************)
(* A direct caller of infer_datatypes: it passes a block and a scope, and  *)
(* calls again on what an Ok call left.                                    *)
(***************************************************************************)
InferInit ==
    /\ scope \in InferScopes
    /\ body \in BlocksUpTo(InferPool, MaxStmts)
    /\ intLitTy \in IntLiteralTypes
    /\ snaps = <<>>
    /\ last = NoCall
    /\ pc = "enter"
    /\ mode = "direct"
    /\ gi = 1
    /\ blocks = << <<>> >>
    /\ bi = 1
    /\ made_inferences = FALSE
    /\ inferred = <<>>
    /\ result = NoStatus
    /\ out = <<>>
    /\ hist = NoHist

CallAgain ==
    /\ pc = "returned"
    /\ result = Ok
    /\ hist.runs < MaxRuns
    /\ pc' = "enter"
    /\ result' = NoStatus
    /\ UNCHANGED <<scope, snaps, last, mode, gi, body, blocks, bi, made_inferences,
                   inferred, out, intLitTy, hist>>

InferSpecNext == InferNext \/ CallAgain

InferSpec == InferInit /\ [][InferSpecNext]_vars

(***************************************************************************)
(* decompile_map                                                           *)
(***************************************************************************)
NameMain == <<"m", "a", "i", "n">>

\* globals::METHODS: (ptr, name, ty) of the engine's methods
METHODS ==
    <<[ptr |-> 1, name |-> NameF, ty |-> Asm(<<BoolT>>)],
      [ptr |-> 2, name |-> NameK, ty |-> Asm(<<IntT, BoolT>>)]>>

\* map.main_fun's location
MainLocs == {9}

\* What the decoder may register in the scope it is handed: the user functions
\* g (pointer 3, three parameters) and w (pointer 4, seventeen), and x
DecodedFuns ==
    <<[ptr |-> 3, name |-> NameG, ty |-> Fun(<<IntT, BoolT, AnyT>>)],
      [ptr |-> 4, name |-> NameW, ty |-> Fun([i \in 1..17 |-> IntT])]>>

DecodeRegs ==
    {DecodedFuns,
     DecodedFuns \o <<[ptr |-> 0, name |-> X, ty |-> AnyT]>>,
     DecodedFuns \o <<[ptr |-> 0, name |-> X, ty |-> BoolT]>>}

\* The statements the decoded blocks are made of
DecodePool ==
    {MethodCall(MethodPointer(3), <<>>),
     MethodCall(MethodIdentifier(NameW), <<>>),
     MethodCall(MethodIdentifier(NameMain), <<>>),
     MethodCall(MethodPointer(3), <<Identifier(X)>>),
     MethodCall(MethodPointer(1), <<Identifier(X)>>),
     MethodCall(MethodPointer(2), <<>>),
     MethodCall(MethodIdentifier(NameK), <<LiteralInt(1), LiteralInt(1)>>),
     MethodCall(MethodPointer(7), <<LiteralInt(1)>>),
     VarDeclare(AnyT, X, LiteralInt(1)),
     VarDeclare(IntT, X, LiteralInt(1)),
     VarAssign(X, LiteralInt(1))}

DecodeErrors == {"bc::Error"}

\* bc.decompile(&mut scope): a bc::Error, or a block and what it registered
DecodeResults ==
    {[err |-> e, block |-> <<>>, regs |-> <<>>] : e \in DecodeErrors}
    \cup {[err |-> "", block |-> b, regs |-> r] :
            b \in BlocksUpTo(DecodePool, MaxStmts), r \in DecodeRegs}

\* The scope after the decoder's registrations: insert_ptr, or insert_name for
\* a name without a pointer
RECURSIVE Register(_, _)
Register(layers, regs) ==
    IF regs = <<>> THEN layers
    ELSE Register(IF Head(regs).ptr = 0
                  THEN InsertName(layers, Head(regs).name, Head(regs).ty)
                  ELSE InsertPtr(layers, Head(regs).ptr, Head(regs).name, Head(regs).ty),
                  Tail(regs))

\* declaration.unparse(&scope): the line written for Declaration::Fun
Unparse(loc, block, layers) ==
    [name |-> LookupPtr(layers, loc), arguments |-> <<>>, block |-> block]

\* let mut scope = Scope::new(); let mut declarations = Vec::new();
DecompileInit ==
    /\ scope = Push(<<>>)
    /\ snaps = <<>>
    /\ last = NoCall
    /\ pc = "seed"
    /\ mode = "decompile"
    /\ gi = 1
    /\ body = <<>>
    /\ blocks = << <<>> >>
    /\ bi = 1
    /\ made_inferences = FALSE
    /\ inferred = <<>>
    /\ result = NoStatus
    /\ out = <<>>
    /\ intLitTy \in IntLiteralTypes
    /\ hist = NoHist

\* One turn of "Bring global methods into scope"
SeedGlobal ==
    /\ pc = "seed"
    /\ gi <= Len(METHODS)
    /\ scope' = InsertPtr(scope, METHODS[gi].ptr, METHODS[gi].name, METHODS[gi].ty)
    /\ gi' = gi + 1
    /\ hist' = [hist EXCEPT !.log = Append(@, Event("seed"))]
    /\ UNCHANGED <<snaps, last, pc, mode, body, blocks, bi, made_inferences, inferred,
                   result, out, intLitTy>>

\* scope.insert_ptr(loc.into(), "main", DataType::Fun(vec![]))
InsertMain ==
    /\ pc = "seed"
    /\ gi > Len(METHODS)
    /\ \E loc \in MainLocs :
        /\ scope' = InsertPtr(scope, loc, NameMain, Fun(<<>>))
        /\ hist' = [hist EXCEPT !.loc = loc, !.log = Append(@, Event("main"))]
    /\ pc' = "decode"
    /\ UNCHANGED <<snaps, last, mode, gi, body, blocks, bi, made_inferences, inferred,
                   result, out, intLitTy>>

\* The decoding without the ?: the error is noted and the loop entered with
\* an empty block
DecodeKeepGoing ==
    /\ pc = "decode"
    /\ \E r \in DecodeResults :
        /\ IF r.err # ""
           THEN /\ result' = BytecodeDecompile(r.err)
                /\ hist' = [hist EXCEPT !.decodeErr = r.err,
                                        !.log = Append(@, Event("decode"))]
           ELSE /\ hist' = [hist EXCEPT !.decoded = r.block,
                                        !.log = Append(@, Event("decode"))]
                /\ UNCHANGED result
        /\ scope' = Register(scope, r.regs)
        /\ body' = r.block
        /\ blocks' = DeclInnerBlocks(r.block)
        /\ bi' = 1
        /\ pc' = "loop"
    /\ UNCHANGED <<snaps, last, mode, gi, made_inferences, inferred, out, intLitTy>>

\* block: bc.decompile(&mut scope)?, and decl.inner_blocks_mut() of the
\* declaration built around it
Decode ==
    /\ pc = "decode"
    /\ \E r \in DecodeResults :
        IF r.err # ""
        THEN /\ result' = BytecodeDecompile(r.err)
             /\ pc' = "done"
             /\ hist' = [hist EXCEPT !.decodeErr = r.err, !.log = Append(@, Event("decode"))]
             /\ UNCHANGED <<scope, body, blocks, bi>>
        ELSE /\ scope' = Register(scope, r.regs)
             /\ body' = r.block
             /\ blocks' = DeclInnerBlocks(r.block)
             /\ bi' = 1
             /\ pc' = "loop"
             /\ hist' = [hist EXCEPT !.decoded = r.block,
                                     !.log = Append(@, Event("decode"))]
             /\ UNCHANGED result
    /\ UNCHANGED <<snaps, last, mode, gi, made_inferences, inferred, out, intLitTy>>

\* The loop with infer_datatypes called on a block fix_call_arg_capture was
\* not called on
LoopNextInferOnly ==
    /\ pc = "loop"
    /\ pc' = IF bi <= Len(blocks) THEN "enter" ELSE "render"
    /\ UNCHANGED <<scope, snaps, last, mode, gi, body, blocks, bi, made_inferences,
                   inferred, result, out, intLitTy, hist>>

\* for mut block in decl.inner_blocks_mut(): the next block, or the end of the
\* loop and declarations.push(decl)
LoopNext ==
    /\ pc = "loop"
    /\ pc' = IF bi <= Len(blocks) THEN "norm" ELSE "render"
    /\ UNCHANGED <<scope, snaps, last, mode, gi, body, blocks, bi, made_inferences,
                   inferred, result, out, intLitTy, hist>>

\* fix_call_arg_capture(&mut block, &scope)?: it returns Ok or panics
Normalize ==
    /\ pc = "norm"
    /\ LET r == FixCallArgCapture(CurBlock, scope)
       IN  /\ body' = SetBlock(body, CurPath, r.block)
           /\ IF r.panic
              THEN /\ pc' = "done"
                   /\ result' = Panicked
              ELSE /\ pc' = "enter"
                   /\ UNCHANGED result
    /\ hist' = [hist EXCEPT !.normIn = CurBlock, !.normScope = scope,
                            !.log = Append(@, Event("norm"))]
    /\ UNCHANGED <<scope, snaps, last, mode, gi, blocks, bi, made_inferences, inferred,
                   out, intLitTy>>

\* "Unparse everything": one line per declaration, and Ok(out)
Render ==
    /\ pc = "render"
    /\ out' = <<Unparse(hist.loc, body, scope)>>
    /\ result' = Ok
    /\ pc' = "done"
    /\ hist' = [hist EXCEPT !.log = Append(@, Event("render"))]
    /\ UNCHANGED <<scope, snaps, last, mode, gi, body, blocks, bi, made_inferences,
                   inferred, intLitTy>>

Next ==
    \/ SeedGlobal
    \/ InsertMain
    \/ Decode
    \/ LoopNext
    \/ Normalize
    \/ InferNext
    \/ Render

Spec == DecompileInit /\ [][Next]_vars

(***************************************************************************)
(* The Scope state machine: any sequence of calls on a Scope.              *)
(***************************************************************************)
ScopePtrs == {1}
ScopeNames == {<<"a">>, <<"b">>}
ScopeTypes == {IntT, BoolT}

\* Scope::new: one pushed layer
ScopeInit ==
    /\ scope = Push(<<>>)
    /\ snaps = << <<>> >>
    /\ last = NoCall
    /\ pc = "scope"
    /\ mode = "scope"
    /\ gi = 1
    /\ body = <<>>
    /\ blocks = << <<>> >>
    /\ bi = 1
    /\ made_inferences = FALSE
    /\ inferred = <<>>
    /\ result = NoStatus
    /\ out = <<>>
    /\ intLitTy = AnyT
    /\ hist = NoHist

ScopeAlive == last.res # PanicT

DoPush ==
    /\ ScopeAlive
    /\ UNCHANGED runVars
    /\ Len(scope) < MaxLayers
    /\ scope' = Push(scope)
    /\ snaps' = <<scope>> \o snaps
    /\ last' = [NoCall EXCEPT !.op = "push", !.before = scope]

\* pop returns the removed layer, or None when there is none
DoPop ==
    /\ ScopeAlive
    /\ UNCHANGED runVars
    /\ scope' = Pop(scope)
    /\ snaps' = IF scope = <<>> THEN snaps ELSE Tail(snaps)
    /\ last' = [NoCall EXCEPT !.op = "pop", !.before = scope,
                              !.popped = IF scope = <<>> THEN <<>> ELSE <<Head(scope)>>,
                              !.snap = IF scope = <<>> THEN <<>> ELSE Head(snaps)]

\* layers[0] of an empty VecDeque panics (index out of bounds)
DoInsertPtr ==
    /\ ScopeAlive
    /\ UNCHANGED runVars
    /\ \E ptr \in ScopePtrs, name \in ScopeNames, ty \in ScopeTypes :
        /\ scope' = IF scope = <<>> THEN scope ELSE InsertPtr(scope, ptr, name, ty)
        /\ last' = [NoCall EXCEPT !.op = "insert_ptr", !.ptr = ptr, !.name = name,
                                  !.ty = ty, !.before = scope,
                                  !.res = IF scope = <<>> THEN PanicT
                                          ELSE InsertPtrRet(scope, ptr, name)]
    /\ UNCHANGED snaps

DoInsertName ==
    /\ ScopeAlive
    /\ UNCHANGED runVars
    /\ \E name \in ScopeNames, ty \in ScopeTypes :
        /\ scope' = IF scope = <<>> THEN scope ELSE InsertName(scope, name, ty)
        /\ last' = [NoCall EXCEPT !.op = "insert_name", !.name = name,
                                  !.ty = ty, !.before = scope,
                                  !.res = IF scope = <<>> THEN PanicT
                                          ELSE InsertNameRet(scope, name)]
    /\ UNCHANGED snaps

DoLookupPtr ==
    /\ ScopeAlive
    /\ UNCHANGED runVars
    /\ \E ptr \in ScopePtrs :
        last' = [NoCall EXCEPT !.op = "lookup_ptr", !.ptr = ptr, !.before = scope,
                               !.resName = LookupPtr(scope, ptr)]
    /\ UNCHANGED <<scope, snaps>>

DoLookupName ==
    /\ ScopeAlive
    /\ UNCHANGED runVars
    /\ \E name \in ScopeNames :
        last' = [NoCall EXCEPT !.op = "lookup_name", !.name = name, !.before = scope,
                               !.res = LookupName(scope, name)]
    /\ UNCHANGED <<scope, snaps>>

DoLookupNameDepth ==
    /\ ScopeAlive
    /\ UNCHANGED runVars
    /\ \E name \in ScopeNames, max_depth \in 0..UsizeMax, build \in Builds :
        last' = [NoCall EXCEPT !.op = "lookup_name_depth", !.name = name,
                               !.depth = max_depth, !.build = build, !.before = scope,
                               !.res = LookupNameDepth(scope, name, max_depth, build)]
    /\ UNCHANGED <<scope, snaps>>

ScopeNext ==
    \/ DoPush
    \/ DoPop
    \/ DoInsertPtr
    \/ DoInsertName
    \/ DoLookupPtr
    \/ DoLookupName
    \/ DoLookupNameDepth

ScopeSpec == ScopeInit /\ [][ScopeNext]_vars

(***************************************************************************)
(* Claims about Scope, checked under ScopeSpec.                            *)
(***************************************************************************)
\* The first of the nearest n layers that binds name, stated over the layers'
\* indices rather than by the code's loop.
FirstBinding(layers, name, n) ==
    LET idx == {i \in 1..Len(layers) : i <= n /\ name \in DOMAIN layers[i].names}
    IN  IF idx = {} THEN NoneT
        ELSE layers[CHOOSE i \in idx : \A j \in idx : i <= j].names[name]

\* C1: shadowing.  An insert into the layer pushed last makes lookup_name /
\* lookup_ptr return the inserted value, whatever an outer layer binds the key
\* to; after the matching pop the layers are those of the moment of the push,
\* so every name and pointer looks up to the outer value again.
C1_Shadowing ==
    /\ (last.op = "insert_name" /\ last.res # PanicT)
          => LookupName(scope, last.name) = last.ty
    /\ (last.op = "insert_ptr" /\ last.res # PanicT)
          => /\ LookupPtr(scope, last.ptr) = SomeName(last.name)
             /\ LookupName(scope, last.name) = last.ty
    /\ (last.op = "pop" /\ last.popped # <<>>)
          => /\ scope = last.snap
             /\ \A n \in ScopeNames : LookupName(scope, n) = LookupName(last.snap, n)
             /\ \A p \in ScopePtrs : LookupPtr(scope, p) = LookupPtr(last.snap, p)

\* C1's case: a pop has just removed a layer that shadowed a name and a pointer
\* of an outer layer with other values.
C1_Witness ==
    /\ last.op = "pop"
    /\ last.popped # <<>>
    /\ \E n \in DOMAIN last.popped[1].names :
          LookupName(scope, n) \notin {NoneT, last.popped[1].names[n]}
    /\ \E p \in DOMAIN last.popped[1].ptrs :
          /\ LookupPtr(scope, p).some
          /\ LookupPtr(scope, p).v # last.popped[1].ptrs[p]

\* C2: insert_name returns the datatype the name was bound to in the topmost
\* layer, and none when only an outer layer (or no layer) binds it; insert_ptr
\* returns the datatype that was bound through the pointer in the topmost layer
\* exactly when the topmost layer had that pointer.
C2_LayerLocalReturn ==
    /\ (last.op = "insert_name" /\ last.res # PanicT)
          => last.res = MapPrev(last.before[1].names, last.name)
    /\ (last.op = "insert_ptr" /\ last.res # PanicT)
          => last.res = IF last.ptr \in DOMAIN last.before[1].ptrs
                        THEN last.before[1].names[last.before[1].ptrs[last.ptr]]
                        ELSE NoneT

\* C3: lookup_name_depth(name, max_depth) returns the binding of the first of
\* the nearest max_depth + 1 layers that has the name, none if none has; with
\* max_depth = 0 only the topmost layer counts, and with max_depth >= layer
\* count - 1 the result is lookup_name's.
C3_BoundedLookup ==
    last.op = "lookup_name_depth"
       => /\ last.res = FirstBinding(scope, last.name, last.depth + 1)
          /\ last.depth = 0 => last.res = FirstBinding(scope, last.name, 1)
          /\ last.depth >= Len(scope) - 1 => last.res = LookupName(scope, last.name)

(***************************************************************************)
(* Claims about infer_datatypes, checked under InferSpec.                  *)
(***************************************************************************)
\* infer_datatypes has returned or panicked
InferEnded == pc \in {"returned", "done"}

\* The identifiers an expression, a statement, a block mention
ExprNames(expr) == IF expr.e = "Identifier" THEN {expr.n} ELSE {}

RECURSIVE BlockNames(_)
BlockNames(block) ==
    UNION {(IF block[i].s \in {"VarDeclare", "VarAssign"}
            THEN {block[i].identifier} ELSE {})
           \cup ExprNames(block[i].expression)
           \cup UNION {ExprNames(block[i].arguments[a]) : a \in 1..Len(block[i].arguments)}
           \cup UNION {BlockNames(block[i].inner[j]) : j \in 1..Len(block[i].inner)}
           : i \in 1..Len(block)}

\* The declared-type cells of a block, nested blocks included
RECURSIVE DeclaredTypes(_)
DeclaredTypes(block) ==
    UNION {(IF block[i].s = "VarDeclare" THEN {block[i].datatype} ELSE {})
           \cup UNION {DeclaredTypes(block[i].inner[j]) : j \in 1..Len(block[i].inner)}
           : i \in 1..Len(block)}

\* The names of a block that have no concrete type in the topmost layer
UnresolvedNames(block, layers) ==
    {n \in BlockNames(block) : FirstBinding(layers, n, 1) \in {NoneT, AnyT}}

\* The names of a block that no layer gives a concrete type
UnresolvedAnywhere(block, layers) ==
    {n \in BlockNames(block) : FirstBinding(layers, n, Len(layers)) \in {NoneT, AnyT}}

\* f(x), f being the method at pointer 1, whose one parameter is boolean
CallFX == MethodCall(MethodPointer(1), <<Identifier(X)>>)

\* C6: backward propagation.  On the block  var x: any = v; f(x)  with f's
\* parameter boolean, v 0 or 1, and a scope that records no concrete type for
\* x, infer_datatypes returns Ok with x declared boolean and the initializer
\* the boolean literal v == 1.
C6_BackwardPropagation ==
    \A v \in {0, 1} :
        (/\ InferEnded
         /\ hist.runs = 1
         /\ hist.body0 = <<VarDeclare(AnyT, X, LiteralInt(v)), CallFX>>
         /\ FirstBinding(hist.scope0, X, Len(hist.scope0)) \in {NoneT, AnyT})
        => /\ result = Ok
           /\ body[1].datatype = BoolT
           /\ body[1].expression = LiteralBool(v = 1)

\* C7: mismatch detection.  On the block  var x: int = 1; f(x)  with f's
\* parameter boolean, infer_datatypes returns the error
\* VarDeclareTypeMismatch { x, declared int, inferred bool }.
C7_MismatchDetection ==
    (/\ InferEnded
     /\ hist.runs = 1
     /\ hist.body0 = <<VarDeclare(IntT, X, LiteralInt(1)), CallFX>>)
    => result = VarDeclareTypeMismatch(X, IntT, BoolT)

\* C8: idempotence.  A second call of infer_datatypes on a block none of whose
\* declarations is declared Any and all of whose names have a concrete type in
\* scope returns Ok and leaves the block and the scope as they were.
C8_Idempotence ==
    (/\ InferEnded
     /\ hist.runs = 2
     /\ AnyT \notin DeclaredTypes(hist.body0)
     /\ UnresolvedAnywhere(hist.body0, hist.scope0) = {})
    => /\ result = Ok
       /\ body = hist.body0
       /\ scope = hist.scope0

\* C9 as stated: the passes over the block number at most the names of the
\* block that are unresolved when infer_datatypes is entered.
C9_PassesAtMostUnresolved ==
    hist.passes <= Cardinality(UnresolvedNames(hist.body0, hist.scope0))

\* C9 as amended: the while loop of infer_datatypes halts, its passes over the
\* block numbering at most one more than the names of the block with no
\* concrete type in the topmost layer at entry; and in a pass that has made an
\* inference the set of those names is a proper subset of what it was when
\* the pass began.
C9_Termination ==
    /\ hist.passes <= Cardinality(UnresolvedNames(hist.body0, hist.scope0)) + 1
    /\ (pc \in {"commit", "while"} /\ hist.passes > 0 /\ made_inferences)
          => /\ UnresolvedNames(hist.body0, scope)
                    \subseteq UnresolvedNames(hist.body0, hist.passScope)
             /\ UnresolvedNames(hist.body0, scope)
                    # UnresolvedNames(hist.body0, hist.passScope)

\* C9's case: a call that took three passes over a block with two unresolved
\* names has returned Ok.
C9_Witness ==
    /\ pc = "returned"
    /\ hist.passes = 3
    /\ Cardinality(UnresolvedNames(hist.body0, hist.scope0)) = 2
    /\ UnresolvedNames(hist.body0, scope) = {}

(***************************************************************************)
(* Claims about fix_call_arg_capture and decompile_map, under Spec         *)
(***************************************************************************)
\* The statements of a block, those of its nested blocks included
RECURSIVE StmtsOf(_)
StmtsOf(block) ==
    UNION {{block[i]}
           \cup UNION {StmtsOf(block[i].inner[j]) : j \in 1..Len(block[i].inner)}
           : i \in 1..Len(block)}

\* The call statements of a block whose callee resolves to DataType::Fun
FunCalls(block, layers) ==
    {st \in StmtsOf(block) :
        st.s = "MethodCall" /\ MethodLookup(st.method, layers).k = "Fun"}

\* The number an upper-case hexadecimal numeral denotes
RECURSIVE HexValue(_)
HexValue(digits) ==
    IF digits = <<>> THEN 0
    ELSE 16 * HexValue(SubSeq(digits, 1, Len(digits) - 1))
         + (CHOOSE d \in 0..15 : HexDigits[d + 1] = digits[Len(digits)])

\* expr is the identifier made of the prefix, "_", and the numeral of pos
IsCapture(expr, pos) ==
    /\ expr.e = "Identifier"
    /\ LET p == Len(FUNWORD_STR) + 1
           numeral == SubSeq(expr.n, p + 1, Len(expr.n))
       IN  /\ Len(expr.n) > p
           /\ SubSeq(expr.n, 1, p) = FUNWORD_STR \o <<"_">>
           /\ \A c \in 1..Len(numeral) : \E d \in 1..16 : HexDigits[d] = numeral[c]
           /\ Len(numeral) = 1 \/ numeral[1] # "0"
           /\ HexValue(numeral) = pos

\* fix_call_arg_capture has just been applied to the block CurBlock
AfterNormalize ==
    /\ mode = "decompile"
    /\ hist.log # <<>>
    /\ hist.log[Len(hist.log)].ev = "norm"

\* C4: normalization arity.  When fix_call_arg_capture has run on a block in
\* which every call of a Fun callee had no arguments, it has returned, and
\* every call in the block and its nested blocks whose callee resolves to Fun
\* of N argument types has exactly N arguments, the i-th being the identifier
\* FUNWORD_STR, "_", and i - 1 in upper-case hexadecimal.
C4_NormalizationArity ==
    (/\ AfterNormalize
     /\ \A st \in FunCalls(hist.normIn, scope) : st.arguments = <<>>)
    => /\ pc = "enter"
       /\ \A st \in FunCalls(CurBlock, scope) :
            /\ Len(st.arguments) = Len(MethodLookup(st.method, scope).args)
            /\ \A i \in 1..Len(st.arguments) : IsCapture(st.arguments[i], i - 1)

\* C4's case: a block has been normalized that holds, in a nested block, a
\* call of the seventeen-parameter w, which came without arguments, and a call
\* of the three-parameter g.
C4_Witness ==
    /\ AfterNormalize
    /\ pc = "enter"
    /\ \E i \in 1..Len(CurBlock) : \E j \in 1..Len(CurBlock[i].inner) :
         \E st \in FunCalls(CurBlock[i].inner[j], scope) :
            /\ st.method = MethodIdentifier(NameW)
            /\ Len(st.arguments) = 17
            /\ st \notin StmtsOf(hist.normIn)
    /\ \E st \in FunCalls(CurBlock, scope) :
            /\ st.method = MethodPointer(3)
            /\ Len(st.arguments) = 3

\* in and out are the same block but for the arguments of the calls whose
\* callee resolves to Fun
RECURSIVE SameButFunArguments(_, _, _)
SameButFunArguments(in, res, layers) ==
    /\ Len(in) = Len(res)
    /\ \A i \in 1..Len(in) :
        /\ in[i].s = res[i].s
        /\ in[i].datatype = res[i].datatype
        /\ in[i].identifier = res[i].identifier
        /\ in[i].expression = res[i].expression
        /\ in[i].method = res[i].method
        /\ (in[i].s = "MethodCall" /\ MethodLookup(in[i].method, layers).k = "Fun")
              \/ in[i].arguments = res[i].arguments
        /\ Len(in[i].inner) = Len(res[i].inner)
        /\ \A j \in 1..Len(in[i].inner) :
              SameButFunArguments(in[i].inner[j], res[i].inner[j], layers)

\* C5: the frame of normalization.  When fix_call_arg_capture has been applied
\* to a block, whether it returned or panicked, the calls whose callee resolves
\* to Asm or to nothing have the arguments they had, every statement that is
\* not a call is as it was but for the calls inside its inner blocks, and the
\* scope is as it was.
C5_NormalizationFrame ==
    AfterNormalize
    => /\ SameButFunArguments(hist.normIn, CurBlock, scope)
       /\ scope = hist.normScope

\* C5's case: fix_call_arg_capture has returned from a block holding a call of
\* an Asm method with arguments, a call of an Asm method without, or a call of
\* a pointer not in scope, next to a declaration and a call it has changed.
C5_Witness ==
    /\ AfterNormalize
    /\ pc = "enter"
    /\ CurBlock # hist.normIn
    /\ \E st \in StmtsOf(CurBlock) :
            st.s = "MethodCall" /\ MethodLookup(st.method, scope).k = "Asm"
    /\ \E st \in StmtsOf(CurBlock) :
            \/ st.s = "MethodCall" /\ MethodLookup(st.method, scope) = NoneT
            \/ st.s = "VarDeclare"

\* C10: text or a failure, never both.  Text is only ever there with Ok.  When
\* decompile_map has failed with BytecodeDecompile it has stopped, the error
\* wraps the decoder's, no block was normalized or inferred and nothing
\* rendered.  When it has failed with VarDeclareTypeMismatch it has stopped in
\* the inference of block bi, no later block was normalized or inferred and
\* nothing rendered.
C10_TextOrFailure ==
    /\ out # <<>> => result = Ok /\ pc = "done"
    /\ result.k = "BytecodeDecompile"
          => /\ pc = "done"
             /\ out = <<>>
             /\ hist.decodeErr \in DecodeErrors
             /\ result = BytecodeDecompile(hist.decodeErr)
             /\ \A e \in 1..Len(hist.log) :
                    hist.log[e].ev \notin {"norm", "infer", "render"}
    /\ result.k = "VarDeclareTypeMismatch"
          => /\ pc = "done"
             /\ out = <<>>
             /\ hist.log[Len(hist.log)] = [ev |-> "infer", b |-> bi]
             /\ \A e \in 1..Len(hist.log) :
                    /\ hist.log[e].ev # "render"
                    /\ hist.log[e].ev \in {"norm", "infer"} => hist.log[e].b <= bi

\* C10's case: decompile_map has failed with a type mismatch in the inference
\* of the body, whose nested block was then never reached.
C10_Witness ==
    /\ mode = "decompile"
    /\ result.k = "VarDeclareTypeMismatch"
    /\ bi = 1
    /\ Len(blocks) > 1

\* The other case of C10: decompile_map has failed in the decoder.
C10_DecodeFailure ==
    /\ mode = "decompile"
    /\ result.k = "BytecodeDecompile"

(***************************************************************************)
(* Claims about the rules and the commit step of infer_datatypes           *)
(***************************************************************************)
\* C11: the mismatch error is only raised for a declared type that is concrete
\* and differs from the type the depth-0 lookup found for the name; a declared
\* type equal to it raises none.
C11_MismatchOnlyOnDifference ==
    result.k = "VarDeclareTypeMismatch"
    => /\ result.declared_datatype # AnyT
       /\ result.declared_datatype # result.inferred_datatype

\* C12: the commit step never writes a candidate for a name that holds a
\* concrete type in the topmost layer, so that infer_datatypes never panics.
C12_NoInconsistency ==
    /\ result # Panicked
    /\ (pc = "commit" /\ inferred # <<>> /\ Head(inferred).datatype # AnyT /\ scope # <<>>)
          => InsertNameRet(scope, Head(inferred).name) \in {NoneT, AnyT}

\* The commit loop of the pass hist.passes of the block has ended without a
\* panic: hist.batch is what the scan recorded, hist.scanScope the scope the
\* loop began with.
AfterCommit == pc = "while" /\ hist.passes > 0

\* The type the topmost layer gives a name, NoneT for none
TopType(layers, name) == FirstBinding(layers, name, 1)

\* The candidates ahead of the first that is Any
RECURSIVE BeforeFirstAny(_)
BeforeFirstAny(cands) ==
    IF cands = <<>> \/ Head(cands).datatype = AnyT THEN <<>>
    ELSE <<Head(cands)>> \o BeforeFirstAny(Tail(cands))

\* C13: at the end of a pass every candidate that is not Any has been written
\* into the topmost layer, wherever it stands among the candidates.
C13_EveryConcreteCommitted ==
    AfterCommit
    => \A i \in 1..Len(hist.batch) :
          hist.batch[i].datatype # AnyT
          => TopType(scope, hist.batch[i].name) = hist.batch[i].datatype

\* C14: at the end of a pass the candidates recorded ahead of the first Any
\* candidate, and no others, have been written into the topmost layer, and the
\* pass has made inferences exactly if there is such a candidate.
C14_BreakAtFirstAny ==
    AfterCommit
    => LET done == BeforeFirstAny(hist.batch)
           named(n) == {i \in 1..Len(done) : done[i].name = n}
       IN  /\ made_inferences = (done # <<>>)
           /\ \A n \in {hist.batch[i].name : i \in 1..Len(hist.batch)} :
                 IF named(n) = {}
                 THEN TopType(scope, n) = TopType(hist.scanScope, n)
                 ELSE \E i \in named(n) : TopType(scope, n) = done[i].datatype

\* C14's case: a pass has ended whose batch was a concrete candidate, an Any
\* candidate and a further concrete candidate, the last left unwritten.
C14_Witness ==
    /\ AfterCommit
    /\ Len(hist.batch) >= 3
    /\ hist.batch[1].datatype # AnyT
    /\ hist.batch[2].datatype = AnyT
    /\ hist.batch[3].datatype # AnyT
    /\ TopType(scope, hist.batch[3].name) # hist.batch[3].datatype
    /\ made_inferences

\* old is an integer literal and new a boolean literal, true for 1 and false
\* for 0
SanctionedRewrite(old, new) ==
    /\ old.e = "LiteralInt"
    /\ new.e = "LiteralBool"
    /\ old.i = 1 => new = LiteralBool(TRUE)
    /\ old.i = 0 => new = LiteralBool(FALSE)

\* The expression slots of the block res are those of the block in, but for
\* integer literals rewritten to boolean literals where the slot is used as a
\* boolean: the initializer of a declaration that was declared Any
\* and whose name the topmost layer gives Bool, the right-hand side of an
\* assignment to a name that is Bool, the argument of a Bool parameter.
RECURSIVE OnlySanctionedRewrites(_, _, _)
OnlySanctionedRewrites(in, res, layers) ==
    /\ Len(in) = Len(res)
    /\ \A i \in 1..Len(in) :
        LET old == in[i]
            new == res[i]
            callee == MethodLookup(old.method, layers)
        IN  /\ old.s = new.s
            /\ \/ old.expression = new.expression
               \/ /\ SanctionedRewrite(old.expression, new.expression)
                  /\ \/ /\ old.s = "VarDeclare"
                        /\ old.datatype = AnyT
                        /\ TopType(layers, old.identifier) = BoolT
                     \/ /\ old.s = "VarAssign"
                        /\ LookupName(layers, old.identifier) = BoolT
            /\ Len(old.arguments) = Len(new.arguments)
            /\ \A a \in 1..Len(old.arguments) :
                  \/ old.arguments[a] = new.arguments[a]
                  \/ /\ SanctionedRewrite(old.arguments[a], new.arguments[a])
                     /\ callee.k \in {"Asm", "Fun"}
                     /\ a <= Len(callee.args)
                     /\ callee.args[a] = BoolT
            /\ Len(old.inner) = Len(new.inner)
            /\ \A j \in 1..Len(old.inner) :
                  OnlySanctionedRewrites(old.inner[j], new.inner[j], layers)

\* C15: whatever infer_datatypes has done to the block it was called on, its
\* expression slots are those it had at the call but for integer literals
\* replaced by boolean literals, 1 by true and 0 by false, in slots used as
\* booleans.
C15_OnlySanctionedRewrite ==
    (hist.runs >= 1 /\ result # Panicked)
    => OnlySanctionedRewrites(hist.body0, CurBlock, scope)

\* C15's case: infer_datatypes has returned Ok from  var x: any = 0; k(1, 1)
\* with x boolean and k's second parameter boolean, the initializer now false
\* and the second argument true, the first argument still 1.
C15_Witness ==
    /\ pc = "returned"
    /\ hist.runs = 1
    /\ hist.body0 = <<VarDeclare(AnyT, X, LiteralInt(0)),
                      MethodCall(MethodIdentifier(NameK), <<LiteralInt(1), LiteralInt(1)>>)>>
    /\ body[1].expression = LiteralBool(FALSE)
    /\ body[2].arguments = <<LiteralInt(1), LiteralBool(TRUE)>>

(***************************************************************************)
(* Claims about the order of the steps of decompile_map, under Spec        *)
(***************************************************************************)
\* The places of the log where a step is recorded
At(ev) == {i \in 1..Len(hist.log) : hist.log[i].ev = ev}

\* C16: the order of the steps.  Every method of METHODS is seeded before main
\* is inserted and main before the decoder is called, and when the decoder is
\* called every method's pointer resolves to its name and type and main's to
\* "main" of type Fun of no arguments; infer_datatypes is entered on a block
\* right after fix_call_arg_capture returned from that block; the rendering is
\* the last step and comes when every block has been normalized and inferred.
C16_StepOrder ==
    /\ \A i \in At("main") :
          /\ Cardinality(At("seed")) = Len(METHODS)
          /\ \A j \in At("seed") : j < i
    /\ \A i \in At("decode") :
          /\ At("main") # {}
          /\ \A j \in At("main") \cup At("seed") : j < i
    /\ pc = "decode"
          => /\ \A g \in 1..Len(METHODS) :
                  /\ LookupPtr(scope, METHODS[g].ptr) = SomeName(METHODS[g].name)
                  /\ LookupName(scope, METHODS[g].name) = METHODS[g].ty
             /\ LookupPtr(scope, hist.loc) = SomeName(NameMain)
             /\ LookupName(scope, NameMain) = Fun(<<>>)
    /\ \A i \in At("norm") : \E j \in At("decode") : j < i
    /\ \A i \in At("infer") :
          /\ i > 1
          /\ hist.log[i - 1] = [ev |-> "norm", b |-> hist.log[i].b]
    /\ \A i \in At("render") :
          /\ i = Len(hist.log)
          /\ bi = Len(blocks) + 1
          /\ \A b \in 1..Len(blocks) :
                \E j \in At("norm"), k \in At("infer") :
                    j < k /\ hist.log[j].b = b /\ hist.log[k].b = b

\* C16's case: decompile_map has rendered a declaration whose body has a
\* nested block.
C16_Witness ==
    /\ mode = "decompile"
    /\ pc = "done"
    /\ result = Ok
    /\ out # <<>>
    /\ Len(blocks) >= 2

\* C17: the zero-argument precondition.  When the calls of Fun callees in the
\* block the decoder returned all have no arguments, so do those of every
\* block fix_call_arg_capture is about to be called on, and its assertion
\* never fails.
C17_ZeroArgumentPrecondition ==
    (/\ mode = "decompile"
     /\ \A st \in FunCalls(hist.decoded, scope) : st.arguments = <<>>)
    => /\ ~(AfterNormalize /\ result = Panicked)
       /\ pc = "norm" => \A st \in FunCalls(CurBlock, scope) : st.arguments = <<>>

\* The names the nested blocks of a block declare
NestedDeclNames(block) ==
    UNION {UNION {{st.identifier : st \in {t \in StmtsOf(block[i].inner[j]) : t.s = "VarDeclare"}}
                  : j \in 1..Len(block[i].inner)}
           : i \in 1..Len(block)}

\* C18: the depth-0 lookup in a nested block.  When a pass over a block is
\* about to scan it, and so to call infer_datatypes on its nested blocks with
\* the scope as it is, the depth-0 lookup of a name a nested block declares
\* does not find the type the commit loop of the enclosing block wrote.
C18_NestedLookupIsLocal ==
    pc = "scan"
    => \A n \in NestedDeclNames(CurBlock) :
          n \in hist.committed => LookupNameDepth0(scope, n) = NoneT

\* The declared-type cells of res that were concrete in the block in are as
\* they were
RECURSIVE ConcreteCellsKept(_, _)
ConcreteCellsKept(in, res) ==
    /\ Len(in) = Len(res)
    /\ \A i \in 1..Len(in) :
        /\ (in[i].s = "VarDeclare" /\ in[i].datatype # AnyT)
              => res[i].datatype = in[i].datatype
        /\ Len(in[i].inner) = Len(res[i].inner)
        /\ \A j \in 1..Len(in[i].inner) : ConcreteCellsKept(in[i].inner[j], res[i].inner[j])

\* C19: a declaration whose declared type was concrete when infer_datatypes
\* was called has that declared type ever after, also when infer_datatypes
\* has returned the mismatch error.
C19_ConcreteCellUnchanged ==
    hist.runs >= 1 => ConcreteCellsKept(hist.body0, CurBlock)

\* The names a layer gives a concrete type
ConcreteNames(layer) == {n \in DOMAIN layer.names : layer.names[n] # AnyT}

\* The scope now is the scope before but for names of the topmost layer that
\* were absent or of another type and now have a concrete type
OnlyConcreteWrites(before, now) ==
    /\ Len(now) = Len(before)
    /\ \A i \in 1..Len(now) : now[i].ptrs = before[i].ptrs
    /\ \A i \in 2..Len(now) : now[i] = before[i]
    /\ now # <<>>
          => /\ DOMAIN before[1].names \subseteq DOMAIN now[1].names
             /\ \A n \in DOMAIN now[1].names :
                   \/ n \in DOMAIN before[1].names /\ now[1].names[n] = before[1].names[n]
                   \/ now[1].names[n] # AnyT
             /\ ConcreteNames(before[1]) \subseteq ConcreteNames(now[1])

\* C20: the frame of inference on the scope.  At every point of a call of
\* infer_datatypes the scope differs from the scope at the call, and from the
\* scope at the start of the pass, only by concrete types written into the
\* names of the topmost layer: the layers are as many, their pointers and the
\* lower layers are the same, and the names the topmost layer gives a
\* concrete type are no fewer.
C20_ScopeFrame ==
    hist.runs >= 1
    => /\ OnlyConcreteWrites(hist.scope0, hist.passScope)
       /\ OnlyConcreteWrites(hist.passScope, scope)
       /\ OnlyConcreteWrites(hist.scope0, scope)

\* C20's case: infer_datatypes has returned Ok from a block with a nested
\* block, having written into a scope of two layers in more than one pass.
C20_Witness ==
    /\ pc = "returned"
    /\ Len(scope) = 2
    /\ scope # hist.passScope
    /\ hist.passScope # hist.scope0
    /\ \E i \in 1..Len(hist.body0) : hist.body0[i].inner # <<>>

====
